---- MODULE Spec2Model ----
(***************************************************************************)
(* Model of the rate-limit decision core of the gateway (src/src/limiter.rs).*)
(* Every request is handled by its own task running `middleware`; the tasks *)
(* interleave at the await points (pool get, SET, DECR, forward).  The only *)
(* shared mutable state is the counter store.                               *)
(***************************************************************************)
EXTENDS Integers, Sequences, FiniteSets, TLC

\* ------------------------------------------------------------------ bounds
\* Number of requests the clients send in one run.
MaxReqs == 3
\* Number of requests that may be in flight at the same time.
MaxInFlight == 2
\* Number of environment events in one run: faults (pool, SET, DECR, body,
\* forwarder) and key expiries.
MaxEvents == 1
\* Number of limiter blocks in a configuration handed to the constructor.
MaxBlocks == 3

\* --------------------------------------------------------------- Option<T>
None == <<>>
Some(x) == <<x>>
IsSome(o) == Len(o) = 1
IsNone(o) == Len(o) = 0
Unwrap(o) == o[1]

\* ------------------------------------------------------------ integer width
I32Max == 2147483647

\* `let count: i32 = ...query_async(...)`: the integer reply is narrowed to
\* i32 (two's complement) by the store client.  Counter values of the model
\* stay inside the wire range (up to 2^31 - 1), where narrowing changes
\* nothing.
AsI32(v) == IF v > I32Max THEN (v - I32Max) - I32Max - 2 ELSE v

\* ----------------------------------------------------------------- Bucket
Bucket(tokens_count, add_tokens_every) ==
    [tokens_count |-> tokens_count, add_tokens_every |-> add_tokens_every]

\* impl From<&BucketSettings> for Bucket
BucketFrom(s) == Bucket(s.tokens_count, s.add_tokens_every)

\* --------------------------------------------------- strings and hashing
\* String::to_lowercase on the configured header names.
to_lowercase(s) ==
    CASE s = "X-Api-Key" -> "x-api-key"
      [] s = "X-Client" -> "x-client"
      [] OTHER -> s

\* hash_key: DefaultHasher over the identity value, rendered as u64.  The
\* model fixes one hash per identity value the clients can produce.
hash_key(s) ==
    CASE s = "1.2.3.4" -> 11
      [] s = "5.6.7.8" -> 12
      [] s = "127.0.0.1" -> 13
      [] s = "/login" -> 21
      [] s = "/health" -> 22
      [] s = "k1" -> 31
      [] s = "c1" -> 32
      [] s = "tok" -> 33
      [] s = "0xFF" -> 34
      [] OTHER -> 99

Hashes == {11, 12, 13, 21, 22, 31, 32, 33, 34, 99}
Kinds == {"ip", "url", "header"}

\* format!("rate_limiter:<kind>:{}", hash)
RedisKey(kind, h) == [kind |-> kind, hash |-> h]
\* The identity values the requests of the model can carry, per strategy.
IdentityValues(kind) ==
    CASE kind = "ip" -> {"1.2.3.4", "5.6.7.8", "127.0.0.1"}
      [] kind = "url" -> {"/login", "/health"}
      [] kind = "header" -> {"k1", "c1", "tok", "0xFF"}

\* The counter keys get_redis_key can build from them.
AllKeys == UNION {{RedisKey(k, hash_key(v)) : v \in IdentityValues(k)} : k \in Kinds}

\* LimitRedisKey::new
LimitRedisKey(key, bucket) == [key |-> key, bucket |-> bucket]

\* HeaderValue::to_str: Err unless every byte is visible ASCII.
to_str(value) == IF value.ascii THEN Some(value.bytes) ELSE None
HV(s) == [bytes |-> s, ascii |-> TRUE]
\* A header value with a byte outside visible ASCII (0xFF: not UTF-8 either).
Opaque(s) == [bytes |-> s, ascii |-> FALSE]

\* ------------------------------------------------- HashMap<String, Bucket>
\* A map is its entries plus the order in which `for (k, v) in map` visits
\* them.  std's HashMap gives no order guarantee (randomly seeded hasher), so
\* the order is an arbitrary permutation of the keys, fixed when the map is
\* built.
RECURSIVE LastIndexOf(_, _, _)
LastIndexOf(entries, value, n) ==
    IF n = 0 THEN 0
    ELSE IF entries[n].value = value THEN n
    ELSE LastIndexOf(entries, value, n - 1)

EntryValues(entries) == {entries[n].value : n \in 1..Len(entries)}
EntryValuesOf(entries) == {entries[n] : n \in 1..Len(entries)}

Perms(S) ==
    {p \in [1..Cardinality(S) -> S] : \A a, b \in 1..Cardinality(S) : p[a] = p[b] => a = b}

\* .iter().map(|b| (b.value.clone(), Bucket::new(..))).collect(): a later
\* entry with the same value replaces the earlier one.
Collect(entries, iter) ==
    [iter |-> iter,
     get |-> [v \in EntryValues(entries) |->
                LET b == entries[LastIndexOf(entries, v, Len(entries))]
                IN Bucket(b.tokens_count, b.add_tokens_every)]]

\* HashMap::get
MapGet(map, k) == IF k \in DOMAIN map.get THEN Some(map.get[k]) ELSE None

\* Mutant of OptionOr: the fallback takes precedence.
OptionOrFallbackFirst(a, b) == IF IsSome(b) THEN b ELSE a

\* Option::or
OptionOr(a, b) == IF IsSome(a) THEN a ELSE b

\* --------------------------------------------------------------- Strategy
\* Mutant of from_possible_strategy: Header mapped to the Url variant.
FromPossibleStrategyHeaderAsUrl(strategy) ==
    CASE strategy = "ip" -> "IP"
      [] strategy = "url" -> "Url"
      [] strategy = "header" -> "Url"

\* Strategy::from_possible_strategy
from_possible_strategy(strategy) ==
    CASE strategy = "ip" -> "IP"
      [] strategy = "url" -> "Url"
      [] strategy = "header" -> "Header"

\* RateLimiter::new
RateLimiter(strategy, global_bucket, buckets_per_value) ==
    [strategy |-> strategy,
     global_bucket |-> global_bucket,
     buckets_per_value |-> buckets_per_value]

\* ------------------------------------------------- RateLimiterManager::new
\* Mutant of NoBucketDefined: a block is refused unless it has both buckets.
NoBucketDefinedEither(global_bucket, buckets_per_value) ==
    IsNone(buckets_per_value) \/ IsNone(global_bucket)

\* `buckets_per_value.is_none() && global_bucket.is_none()`
NoBucketDefined(global_bucket, buckets_per_value) ==
    IsNone(buckets_per_value) /\ IsNone(global_bucket)

\* One pass of the `for settings in limiters_settings` loop, from block n on.
\* acc holds user_rate_limiters and url_rate_limiters built so far.
RECURSIVE NewLoop(_, _, _, _)
NewLoop(limiters_settings, iters, n, acc) ==
    IF n > Len(limiters_settings) THEN acc
    ELSE
      LET settings == limiters_settings[n]
          strategy == from_possible_strategy(settings.strategy)
          global_bucket ==
              IF IsSome(settings.global_bucket)
              THEN Some(BucketFrom(Unwrap(settings.global_bucket)))
              ELSE None
          buckets_per_value ==
              IF IsSome(settings.buckets_per_value)
              THEN Some(Collect(Unwrap(settings.buckets_per_value), iters[n]))
              ELSE None
          limiter == RateLimiter(strategy, global_bucket, buckets_per_value)
      IN IF NoBucketDefined(global_bucket, buckets_per_value)
         THEN [acc EXCEPT !.ok = FALSE]
         ELSE IF strategy = "Url"
         THEN NewLoop(limiters_settings, iters, n + 1,
                      [acc EXCEPT !.url_rate_limiters = Append(@, limiter)])
         ELSE NewLoop(limiters_settings, iters, n + 1,
                      [acc EXCEPT !.user_rate_limiters = Append(@, limiter)])

\* RateLimiterManager::new; ok = FALSE stands for Err(InvalidData).
ManagerNew(rate_limiter_settings, iters) ==
    LET built == NewLoop(rate_limiter_settings.limiters_settings, iters, 1,
                         [ok |-> TRUE, user_rate_limiters |-> <<>>,
                          url_rate_limiters |-> <<>>])
    IN [ok |-> built.ok,
        ip_whitelist |-> IF built.ok THEN rate_limiter_settings.ip_whitelist ELSE {},
        user_rate_limiters |-> IF built.ok THEN built.user_rate_limiters ELSE <<>>,
        url_rate_limiters |-> IF built.ok THEN built.url_rate_limiters ELSE <<>>]

\* The iteration orders the maps of a settings value can end up with.
IterChoices(rate_limiter_settings) ==
    LET ls == rate_limiter_settings.limiters_settings
    IN {it \in [1..Len(ls) -> UNION {Perms(EntryValues(Unwrap(ls[n].buckets_per_value))) :
                                     n \in {m \in 1..Len(ls) : IsSome(ls[m].buckets_per_value)}}
                                \cup {<<>>}] :
          \A n \in 1..Len(ls) :
             IF IsSome(ls[n].buckets_per_value)
             THEN it[n] \in Perms(EntryValues(Unwrap(ls[n].buckets_per_value)))
             ELSE it[n] = <<>>}

\* ---------------------------------------------------------- get_redis_key
\* Result of get_redis_key: Some(LimitRedisKey), None, or a panic (unwrap on
\* None / Err), which unwinds the request's task.
KeyOk(k) == [tag |-> "key", key |-> Some(k)]
KeyNone == [tag |-> "none", key |-> None]
KeyPanic == [tag |-> "panic", key |-> None]

\* IPRateLimiterStrategy::get_redis_key
IpGetRedisKey(request, global_bucket, buckets_per_value) ==
    LET ip == request.ip
        bucket == IF IsSome(buckets_per_value)
                  THEN OptionOr(MapGet(Unwrap(buckets_per_value), ip), global_bucket)
                  ELSE global_bucket
    IN IF IsNone(bucket) THEN KeyNone
       ELSE KeyOk(LimitRedisKey(RedisKey("ip", hash_key(ip)), Unwrap(bucket)))

\* UrlRateLimiterStrategy::get_redis_key
UrlGetRedisKey(request, global_bucket, buckets_per_value) ==
    LET uri == request.path
        bucket == IF IsSome(buckets_per_value)
                  THEN OptionOr(MapGet(Unwrap(buckets_per_value), uri), global_bucket)
                  ELSE global_bucket
    IN IF IsNone(bucket) THEN KeyNone
       ELSE KeyOk(LimitRedisKey(RedisKey("url", hash_key(uri)), Unwrap(bucket)))

\* HeaderMap::get
HeadersGet(request, name) ==
    IF name \in DOMAIN request.headers THEN Some(request.headers[name]) ELSE None

\* The `for (k, v) in bucket` loop of HeaderRateLimiterStrategy::get_redis_key,
\* from position n of the map's iteration order.  Every match overwrites
\* found_header / found_bucket; there is no break.
RECURSIVE HeaderLoop(_, _, _, _)
HeaderLoop(request, map, n, found) ==
    IF found.panic \/ n > Len(map.iter) THEN found
    ELSE
      LET k == map.iter[n]
          value == HeadersGet(request, to_lowercase(k))
      IN IF IsNone(value) THEN HeaderLoop(request, map, n + 1, found)
         ELSE IF IsNone(to_str(Unwrap(value)))
         THEN [found EXCEPT !.panic = TRUE]
         ELSE HeaderLoop(request, map, n + 1,
                         [found_header |-> to_str(Unwrap(value)),
                          found_bucket |-> Some(map.get[k]),
                          panic |-> FALSE])

\* HeaderRateLimiterStrategy::get_redis_key
HeaderGetRedisKey(request, global_bucket, buckets_per_value) ==
    LET start == [found_header |-> None, found_bucket |-> None, panic |-> FALSE]
        looped == IF IsSome(buckets_per_value)
                  THEN HeaderLoop(request, Unwrap(buckets_per_value), 1, start)
                  ELSE start
        auth == HeadersGet(request, "authorization")
        fallback ==
            IF ~looped.panic /\ IsNone(looped.found_header) /\ IsSome(global_bucket)
               /\ IsSome(auth)
            THEN IF IsNone(to_str(Unwrap(auth)))
                 THEN [looped EXCEPT !.panic = TRUE]
                 ELSE [found_header |-> to_str(Unwrap(auth)),
                       found_bucket |-> global_bucket,
                       panic |-> FALSE]
            ELSE looped
    IN IF fallback.panic THEN KeyPanic
       \* found_header.unwrap() is evaluated before found_bucket?
       ELSE IF IsNone(fallback.found_header) THEN KeyPanic
       ELSE IF IsNone(fallback.found_bucket) THEN KeyNone
       ELSE KeyOk(LimitRedisKey(RedisKey("header", hash_key(Unwrap(fallback.found_header))),
                                Unwrap(fallback.found_bucket)))

\* The dispatch of Strategy::check_limit to the variant's get_redis_key.
GetRedisKey(limiter, request) ==
    CASE limiter.strategy = "IP" ->
           IpGetRedisKey(request, limiter.global_bucket, limiter.buckets_per_value)
      [] limiter.strategy = "Url" ->
           UrlGetRedisKey(request, limiter.global_bucket, limiter.buckets_per_value)
      [] limiter.strategy = "Header" ->
           HeaderGetRedisKey(request, limiter.global_bucket, limiter.buckets_per_value)

\* -------------------------------------------------------- LimitForRequest
\* LimitForRequest::new
LimitForRequest(total_limit, requests_to_exceed_limit, is_limit_exceeded) ==
    [total_limit |-> total_limit,
     requests_to_exceed_limit |-> requests_to_exceed_limit,
     is_limit_exceeded |-> is_limit_exceeded]

\* Mutant of LimitGt: the comparison the other way round.
LimitGtFlipped(a, b) == a.requests_to_exceed_limit < b.requests_to_exceed_limit

\* impl PartialOrd for LimitForRequest: a > b
LimitGt(a, b) == a.requests_to_exceed_limit > b.requests_to_exceed_limit

\* The match on &lowest_limit in middleware: keep the smaller verdict, the
\* earlier one on a tie.
UpdateLowest(lowest_limit, limit) ==
    IF IsNone(lowest_limit) THEN Some(limit)
    ELSE IF LimitGt(Unwrap(lowest_limit), limit) THEN Some(limit)
    ELSE lowest_limit

\* Mutants of IsLimitExceeded: the boundary off by one, either way.
IsLimitExceededAtZero(count) == count <= 0
IsLimitExceededBelowMinusOne(count) == count < -1

\* `count < 0` in check_limit
IsLimitExceeded(count) == count < 0

\* ------------------------------------------------------------ the store
\* A key is absent (None) or holds an integer and the expiry it was given in
\* seconds (0: the key has no expiry).
Entry(val, ttl) == [val |-> val, ttl |-> ttl]

\* Mutant of StoreSetNx: SET without NX overwrites an existing counter.
StoreSetAlways(st, key, value, seconds) ==
    IF seconds > 0
    THEN [st EXCEPT ![key] = Some(Entry(value, seconds))]
    ELSE st

\* Mutant of StoreSetNx: an existing counter keeps its value but gets the
\* new expiry (SET .. NX followed by EXPIRE).
StoreSetNxTouch(st, key, value, seconds) ==
    IF seconds <= 0 THEN st
    ELSE IF IsNone(st[key]) THEN [st EXCEPT ![key] = Some(Entry(value, seconds))]
    ELSE [st EXCEPT ![key] = Some(Entry(Unwrap(@).val, seconds))]

\* SET key value EX seconds NX: writes only when the key is absent; EX 0 is
\* refused by the store (the error is ignored by the caller).
StoreSetNx(st, key, value, seconds) ==
    IF IsNone(st[key]) /\ seconds > 0
    THEN [st EXCEPT ![key] = Some(Entry(value, seconds))]
    ELSE st

\* DECR key: an absent key counts as 0 and is created without expiry.
StoreDecr(st, key) ==
    IF IsNone(st[key])
    THEN [st EXCEPT ![key] = Some(Entry(-1, 0))]
    ELSE [st EXCEPT ![key] = Some(Entry(Unwrap(@).val - 1, Unwrap(@).ttl))]

\* ------------------------------------------------------------- scenarios
\* The settings the gateway is started with and the requests its clients
\* send, drawn from a small set of deployments.
Req(ip, path, headers) == [ip |-> ip, path |-> path, headers |-> headers]
NoHeaders == <<>>
NoRequest == Req("", "", NoHeaders)

Limiter(strategy, global_bucket, buckets_per_value) ==
    [strategy |-> strategy, global_bucket |-> global_bucket,
     buckets_per_value |-> buckets_per_value]
PerValue(value, tokens_count, add_tokens_every) ==
    [value |-> value, tokens_count |-> tokens_count,
     add_tokens_every |-> add_tokens_every]
Settings(ip_whitelist, limiters_settings) ==
    [ip_whitelist |-> ip_whitelist, limiters_settings |-> limiters_settings]

ScBasic ==
    [settings |-> Settings({"127.0.0.1"},
        << Limiter("ip", Some(Bucket(2, 60)), Some(<< PerValue("5.6.7.8", 1, 30) >>)) >>),
     clients |-> {Req("1.2.3.4", "/login", NoHeaders),
                  Req("5.6.7.8", "/login", NoHeaders),
                  Req("127.0.0.1", "/login", NoHeaders)}]

\* URL limiter first in the configuration, tighter than the IP limiter.
ScTightUrl ==
    [settings |-> Settings({},
        << Limiter("url", Some(Bucket(3, 60)), Some(<< PerValue("/login", 1, 60) >>)),
           Limiter("ip", Some(Bucket(2, 60)), None) >>),
     clients |-> {Req("1.2.3.4", "/login", NoHeaders)}]

\* IP limiter tighter than the URL limiter.
ScTightIp ==
    [settings |-> Settings({},
        << Limiter("ip", Some(Bucket(1, 60)), None),
           Limiter("url", Some(Bucket(2, 60)), None) >>),
     clients |-> {Req("5.6.7.8", "/health", NoHeaders)}]

ScHeader ==
    [settings |-> Settings({},
        << Limiter("header", None, Some(<< PerValue("X-Api-Key", 1, 60),
                                           PerValue("X-Client", 2, 60) >>)) >>),
     clients |-> {Req("1.2.3.4", "/login",
                      ("x-api-key" :> HV("k1")) @@ ("x-client" :> HV("c1"))),
                  Req("1.2.3.4", "/login", "x-client" :> HV("c1")),
                  Req("1.2.3.4", "/login", NoHeaders)}]

ScAuth ==
    [settings |-> Settings({},
        << Limiter("header", Some(Bucket(2, 60)), Some(<< PerValue("X-Api-Key", 1, 60) >>)),
           Limiter("url", Some(Bucket(2, 60)), None) >>),
     clients |-> {Req("1.2.3.4", "/login", "authorization" :> HV("tok")),
                  Req("1.2.3.4", "/login", "authorization" :> Opaque("0xFF")),
                  Req("1.2.3.4", "/login", NoHeaders)}]

\* An IP limiter with overrides only and a URL limiter with an override and
\* a global bucket; the client's IP has no override.
ScPaths ==
    [settings |-> Settings({},
        << Limiter("ip", None, Some(<< PerValue("5.6.7.8", 1, 30) >>)),
           Limiter("url", Some(Bucket(2, 60)), Some(<< PerValue("/login", 1, 60) >>)) >>),
     clients |-> {Req("1.2.3.4", "/login", NoHeaders),
                  Req("1.2.3.4", "/health", NoHeaders)}]

\* Two limiters in the identity group.
ScPair ==
    [settings |-> Settings({},
        << Limiter("ip", Some(Bucket(1, 60)), None),
           Limiter("header", Some(Bucket(2, 60)), None) >>),
     clients |-> {Req("1.2.3.4", "/login", "authorization" :> HV("tok"))}]

\* Two header names whose values can coincide: both clients present the
\* value k1, under different names with different buckets.
ScShared ==
    [settings |-> Settings({},
        << Limiter("header", None, Some(<< PerValue("X-Api-Key", 1, 60),
                                           PerValue("X-Client", 2, 30) >>)) >>),
     clients |-> {Req("1.2.3.4", "/login", "x-api-key" :> HV("k1")),
                  Req("1.2.3.4", "/login", "x-client" :> HV("k1"))}]

\* Two limiters of the same strategy kind with different buckets: both key
\* on the caller's IP.
ScTwin ==
    [settings |-> Settings({},
        << Limiter("ip", Some(Bucket(3, 60)), None),
           Limiter("ip", Some(Bucket(1, 60)), None) >>),
     clients |-> {Req("1.2.3.4", "/login", NoHeaders)}]

Scenarios ==
    {ScBasic, ScTightUrl, ScTightIp, ScHeader, ScAuth, ScPaths, ScPair, ScShared,
     ScTwin}

\* ----------------------------------------------------------------- state
VARIABLES
    settings,   \* RateLimiterSettings the process was started with
    manager,    \* Arc<RateLimiterManager> (result of RateLimiterManager::new)
    clients,    \* the requests the clients of this deployment send
    store,      \* the counter store: key -> Option<Entry>
    task,       \* per request task: position in middleware and its locals
    log,        \* per request task: what it did so far (observation only)
    obs,        \* per key: what was observed on it so far (observation only)
    arrivals,   \* requests accepted so far
    events      \* environment events (faults, expiries) so far

vars == <<settings, manager, clients, store, task, log, obs, arrivals, events>>

\* The tasks that can run at the same time.
Tasks == 1..MaxInFlight

NoResponse == [status |-> 0, limit |-> None, remaining |-> None]

InitTask ==
    [pc |-> "idle", request |-> NoRequest, g |-> 1, i |-> 0, key |-> None,
     lowest_limit |-> None, conn |-> 0, response |-> NoResponse]

InitLog ==
    [checks |-> <<>>, ops |-> <<>>, conns |-> 0, forwards |-> 0,
     body |-> FALSE]

\* Per key: the replies DECR gave since the key last expired, how many DECR
\* replies there were and how many of them were non-negative, the largest
\* capacity a SET carried, whether the key ever expired, and whether it
\* expired with no DECR on it since.
InitObs ==
    [seen |-> {}, hits |-> 0, admits |-> 0, cap |-> 0, everExpired |-> FALSE,
     expired |-> FALSE]

InitWith(scenarios) ==
    /\ \E sc \in scenarios :
         /\ settings = sc.settings
         /\ clients = sc.clients
         /\ \E iters \in IterChoices(sc.settings) :
              manager = ManagerNew(sc.settings, iters)
    /\ store = [k \in AllKeys |-> None]
    /\ task = [r \in Tasks |-> InitTask]
    /\ log = [r \in Tasks |-> InitLog]
    /\ obs = [k \in AllKeys |-> InitObs]
    /\ arrivals = 0
    /\ events = 0

\* ------------------------------------------------------------ middleware
InFlight == {r \in Tasks : task[r].pc # "idle"}

\* No finished task is waiting to be closed.  A finished task shares nothing
\* with the others, so it is closed before anything else moves.
Settled == \A q \in Tasks : task[q].pc # "done"
Idle == Tasks \ InFlight

\* Mutant of Group: the two groups in the opposite order.
GroupSwapped(g) == IF g = 1 THEN manager.url_rate_limiters ELSE manager.user_rate_limiters

\* rate_limiter_groups
Group(g) == IF g = 1 THEN manager.user_rate_limiters ELSE manager.url_rate_limiters

\* An environment event is possible while the run's budget lasts.
MayFail(ok) == IF ok THEN TRUE ELSE events < MaxEvents
Count(ok) == IF ok THEN events ELSE events + 1

\* Mutant of AfterLimiter: the exceeded test only after the last group.
RECURSIVE AfterLimiterLate(_, _, _)
AfterLimiterLate(g, i, lowest_limit) ==
    IF i < Len(Group(g)) THEN [pc |-> "check", g |-> g, i |-> i + 1]
    ELSE IF g = 1 THEN AfterLimiterLate(2, 0, lowest_limit)
    ELSE IF IsSome(lowest_limit) /\ Unwrap(lowest_limit).is_limit_exceeded
    THEN [pc |-> "reject", g |-> g, i |-> i]
    ELSE [pc |-> "forward", g |-> g, i |-> i]

\* Mutant of AfterLimiter: the group's loop is left as soon as the tightest
\* verdict is exceeded.
RECURSIVE AfterLimiterBreak(_, _, _)
AfterLimiterBreak(g, i, lowest_limit) ==
    IF IsSome(lowest_limit) /\ Unwrap(lowest_limit).is_limit_exceeded
    THEN [pc |-> "reject", g |-> g, i |-> i]
    ELSE IF i < Len(Group(g)) THEN [pc |-> "check", g |-> g, i |-> i + 1]
    ELSE IF g = 1 THEN AfterLimiterBreak(2, 0, lowest_limit)
    ELSE [pc |-> "forward", g |-> g, i |-> i]

\* Where the two nested `for` loops of middleware go once limiter i of group
\* g has been handled with lowest_limit as given: the next limiter of the
\* group; at the end of a group the 429 return if the tightest verdict is
\* exceeded, else the next group; after the last group the forward.
RECURSIVE AfterLimiter(_, _, _)
AfterLimiter(g, i, lowest_limit) ==
    IF i < Len(Group(g)) THEN [pc |-> "check", g |-> g, i |-> i + 1]
    ELSE IF IsSome(lowest_limit) /\ Unwrap(lowest_limit).is_limit_exceeded
    THEN [pc |-> "reject", g |-> g, i |-> i]
    ELSE IF g = 1 THEN AfterLimiter(2, 0, lowest_limit)
    ELSE [pc |-> "forward", g |-> g, i |-> i]

\* The response of next.run(..) with the quota headers of lowest_limit.
Stamp(status, lowest_limit) ==
    IF IsSome(lowest_limit)
    THEN [status |-> status,
          limit |-> Some(Unwrap(lowest_limit).total_limit),
          remaining |-> Some(Unwrap(lowest_limit).requests_to_exceed_limit)]
    ELSE [status |-> status, limit |-> None, remaining |-> None]

\* (StatusCode::TOO_MANY_REQUESTS, "Rate limit exceeded").into_response()
TooManyRequests == [status |-> 429, limit |-> None, remaining |-> None]

\* The request task's locals after limiter (g, i) returned `limit`
\* (None: the limiter skipped).
Continue(t, limit) ==
    LET lowest == IF IsSome(limit) THEN UpdateLowest(t.lowest_limit, Unwrap(limit))
                  ELSE t.lowest_limit
        nxt == AfterLimiter(t.g, t.i, lowest)
    IN IF nxt.pc = "reject"
       THEN [t EXCEPT !.pc = "done", !.key = None,
                      !.lowest_limit = lowest, !.response = TooManyRequests]
       ELSE [t EXCEPT !.pc = nxt.pc, !.g = nxt.g, !.i = nxt.i, !.key = None,
                      !.lowest_limit = lowest]

\* self.redis_pool.get().await returning Ok: the task holds one more
\* connection of the pool.
PoolGet(t) == [t EXCEPT !.conn = @ + 1]

\* Mutant of DropConnection: the connection is leaked (kept out of the pool).
DropConnectionLeaked(t) == t

\* check_limit owns redis_connection (moved in by value): when check_limit
\* returns or unwinds, the connection is dropped and goes back to the pool.
DropConnection(t) == [t EXCEPT !.conn = @ - 1]

\* Mutant of OnPoolError: a failed pool get counted as a failed decrement.
OnPoolErrorFailClosed == Some(LimitForRequest(0, -1, TRUE))

\* `Err(_) => return None` in RateLimiter::check
OnPoolError == None

\* Mutant of Whitelisted: the whitelist is never consulted.
WhitelistedNever(request) == FALSE

\* ip_whitelist.contains(&addr.ip())
Whitelisted(request) == request.ip \in manager.ip_whitelist

CheckEntry(t, outcome, key, verdict) ==
    [g |-> t.g, i |-> t.i, outcome |-> outcome, key |-> key, verdict |-> verdict,
     nth |-> 0, dup |-> FALSE, fresh |-> FALSE, clean |-> FALSE]

OpEntry(t, op, key, ok) ==
    [op |-> op, key |-> key, g |-> t.g, i |-> t.i, ok |-> ok]

\* A client connects and the server runs middleware in a task of its own, up
\* to the first limiter: the whitelist return, or the body read.  Nothing
\* shared is touched on the way.
Arrive(r) ==
    /\ manager.ok
    /\ Settled
    /\ arrivals < MaxReqs
    /\ r \in Idle
    /\ \A q \in Idle : r <= q
    /\ arrivals' = arrivals + 1
    /\ \E c \in clients, ok \in BOOLEAN :
         /\ MayFail(ok)
         /\ events' = Count(ok)
         /\ IF Whitelisted(c)
            THEN /\ task' = [task EXCEPT ![r] = [@ EXCEPT !.pc = "done", !.request = c,
                               !.response = Stamp(IF ok THEN 200 ELSE 500, None)]]
                 /\ log' = [log EXCEPT ![r].forwards = @ + 1]
            ELSE IF ok
            THEN /\ task' = [task EXCEPT ![r] =
                               LET nxt == AfterLimiter(1, 0, None)
                               IN [@ EXCEPT !.pc = nxt.pc, !.g = nxt.g, !.i = nxt.i,
                                            !.request = c]]
                 /\ log' = [log EXCEPT ![r].body = TRUE]
            ELSE /\ task' = [task EXCEPT ![r] = [@ EXCEPT !.pc = "done", !.request = c,
                               !.response = Stamp(500, None)]]
                 /\ log' = log
    /\ UNCHANGED <<settings, manager, clients, store, obs>>

\* RateLimiter::check up to and including the SET command: the pool get,
\* get_redis_key inside check_limit, then SET .. EX .. NX with its error
\* ignored.  A panic in get_redis_key unwinds the task: the connection is
\* dropped and the client gets no response.
Check(r) ==
    /\ task[r].pc = "check"
    /\ Settled
    /\ \E pool \in BOOLEAN, ok \in BOOLEAN :
         LET t == task[r]
             limiter == Group(t.g)[t.i]
             got == GetRedisKey(limiter, t.request)
         IN IF ~pool
            THEN /\ ok
                 /\ MayFail(FALSE)
                 /\ events' = Count(FALSE)
                 /\ task' = [task EXCEPT ![r] = Continue(t, OnPoolError)]
                 /\ log' = [log EXCEPT ![r].checks =
                              Append(@, CheckEntry(t, "pool", None, OnPoolError))]
                 /\ UNCHANGED <<store, obs>>
            ELSE IF got.tag = "panic"
            THEN /\ ok
                 /\ events' = events
                 /\ task' = [task EXCEPT ![r] =
                               [DropConnection(PoolGet(t)) EXCEPT !.pc = "done"]]
                 /\ log' = [log EXCEPT ![r].checks =
                              Append(@, CheckEntry(t, "panic", None, None)),
                            ![r].conns = @ + 1]
                 /\ UNCHANGED <<store, obs>>
            ELSE IF got.tag = "none"
            THEN /\ ok
                 /\ events' = events
                 /\ task' = [task EXCEPT ![r] =
                               Continue(DropConnection(PoolGet(t)), None)]
                 /\ log' = [log EXCEPT ![r].checks =
                              Append(@, CheckEntry(t, "skip", None, None)),
                            ![r].conns = @ + 1]
                 /\ UNCHANGED <<store, obs>>
            ELSE LET k == Unwrap(got.key)
                 IN /\ MayFail(ok)
                    /\ events' = Count(ok)
                    /\ task' = [task EXCEPT ![r] = [PoolGet(t) EXCEPT !.pc = "decr",
                                  !.key = got.key]]
                    /\ store' = IF ok
                                THEN StoreSetNx(store, k.key, k.bucket.tokens_count,
                                                k.bucket.add_tokens_every)
                                ELSE store
                    /\ obs' = IF ok /\ k.bucket.tokens_count > obs[k.key].cap
                              THEN [obs EXCEPT ![k.key].cap = k.bucket.tokens_count]
                              ELSE obs
                    /\ log' = [log EXCEPT ![r].conns = @ + 1,
                                 ![r].ops = Append(@, OpEntry(t, "SET", k.key, ok))]
    /\ UNCHANGED <<settings, manager, clients, arrivals>>

\* Mutant of DecrReply: the fallback the code's comment announces ("Set to 0").
DecrReplyZero(ok, val) == IF ok THEN AsI32(val) ELSE 0

\* `let count: i32 = ...query_async(..).await.unwrap_or(-1)`: the reply of
\* DECR, or -1 when the command failed.
DecrReply(ok, val) == IF ok THEN AsI32(val) ELSE -1

\* redis::cmd("DECR") with unwrap_or(-1), the verdict, and the return into
\* middleware's loop.
Decr(r) ==
    /\ task[r].pc = "decr"
    /\ Settled
    /\ \E ok \in BOOLEAN :
         /\ MayFail(ok)
         /\ events' = Count(ok)
         /\ LET t == task[r]
                k == Unwrap(t.key)
                after == StoreDecr(store, k.key)
                count == DecrReply(ok, Unwrap(after[k.key]).val)
                limit == LimitForRequest(k.bucket.tokens_count, count,
                                         IsLimitExceeded(count))
                o == obs[k.key]
            IN /\ store' = IF ok THEN after ELSE store
               /\ obs' = IF ok
                         THEN [obs EXCEPT ![k.key] =
                                 [@ EXCEPT !.seen = @ \cup {count},
                                           !.hits = @ + 1,
                                           !.admits = IF count >= 0 THEN @ + 1 ELSE @,
                                           !.expired = FALSE]]
                         ELSE obs
               /\ task' = [task EXCEPT ![r] = Continue(DropConnection(t), Some(limit))]
               /\ log' = [log EXCEPT
                            ![r].ops = Append(@, OpEntry(t, "DECR", k.key, ok)),
                            ![r].checks = Append(@,
                               [CheckEntry(t, "verdict", Some(k.key), Some(limit))
                                  EXCEPT !.nth = IF ok THEN o.hits + 1 ELSE 0,
                                         !.dup = ok /\ count \in o.seen,
                                         !.fresh = ok /\ o.expired,
                                         !.clean = ok /\ events = 0])]
    /\ UNCHANGED <<settings, manager, clients, arrivals>>

\* next.run(Request::from_parts(..)) and the header stamping.
Forward(r) ==
    /\ task[r].pc = "forward"
    /\ Settled
    /\ \E ok \in BOOLEAN :
         /\ MayFail(ok)
         /\ events' = Count(ok)
         /\ task' = [task EXCEPT ![r] = [@ EXCEPT !.pc = "done",
                       !.response = Stamp(IF ok THEN 200 ELSE 500, task[r].lowest_limit)]]
    /\ log' = [log EXCEPT ![r].forwards = @ + 1]
    /\ UNCHANGED <<settings, manager, clients, store, obs, arrivals>>

\* The response (or the reset connection) has gone out and the task ends;
\* its locals are dropped.
Close(r) ==
    /\ task[r].pc = "done"
    /\ task' = [task EXCEPT ![r] = InitTask]
    /\ log' = [log EXCEPT ![r] = InitLog]
    /\ UNCHANGED <<settings, manager, clients, store, obs, arrivals, events>>

\* The store drops a key whose expiry has passed.
Expire(k) ==
    /\ events < MaxEvents
    /\ Settled
    /\ IsSome(store[k])
    /\ Unwrap(store[k]).ttl > 0
    /\ store' = [store EXCEPT ![k] = None]
    /\ obs' = [obs EXCEPT ![k].expired = TRUE, ![k].everExpired = TRUE, ![k].seen = {}]
    /\ events' = events + 1
    /\ UNCHANGED <<settings, manager, clients, task, log, arrivals>>

Next ==
    \/ \E r \in Tasks : Arrive(r)
    \/ \E r \in Tasks : Check(r)
    \/ \E r \in Tasks : Decr(r)
    \/ \E r \in Tasks : Forward(r)
    \/ \E r \in Tasks : Close(r)
    \/ \E k \in AllKeys : Expire(k)

Init == InitWith(Scenarios)
Spec == Init /\ [][Next]_vars

\* The single-limiter deployment with a whitelist.
InitBasic == InitWith({ScBasic})
SpecBasic == InitBasic /\ [][Next]_vars

\* The deployments with one identity limiter and one request limiter.
InitTight == InitWith({ScTightUrl, ScTightIp})
SpecTight == InitTight /\ [][Next]_vars

\* The single-limiter deployment and a two-group deployment.
InitPool == InitWith({ScBasic, ScTightIp})
SpecPool == InitPool /\ [][Next]_vars

\* The deployment with per-path and per-IP overrides.
InitPaths == InitWith({ScPaths})
SpecPaths == InitPaths /\ [][Next]_vars

\* The deployment with two limiters in the identity group.
InitPair == InitWith({ScPair})
SpecPair == InitPair /\ [][Next]_vars

\* The deployment in which two header names share a counter key.
InitShared == InitWith({ScShared})
SpecShared == InitShared /\ [][Next]_vars

\* The deployment with two limiters of the same strategy kind.
InitTwin == InitWith({ScTwin})
SpecTwin == InitTwin /\ [][Next]_vars

\* ------------------------------------------- capacities beyond i32::MAX
\* tokens_count is a u32 and the store's counters are 64-bit integers, so
\* both can exceed what an i32 (and an integer of TLC) holds.  Such an
\* integer x is written in two limbs, x = hi * 2^16 + lo with 0 <= lo < 2^16;
\* hi carries the sign.
Limb == 256 * 256
I64(hi, lo) == [hi |-> hi, lo |-> lo]
ToI64(n) == I64(n \div Limb, n % Limb)
I64Decr(w) == IF w.lo > 0 THEN I64(w.hi, w.lo - 1) ELSE I64(w.hi - 1, Limb - 1)
I64Gt(a, b) == a.hi > b.hi \/ (a.hi = b.hi /\ a.lo > b.lo)

\* The value lies in i32::MIN ..= i32::MAX.
FitsI32(w) == w.hi >= -(Limb \div 2) /\ w.hi < Limb \div 2

\* `as i32`: the low 32 bits, read as two's complement.
I64AsI32(w) ==
    LET h == w.hi % Limb
    IN (IF h >= Limb \div 2 THEN h - Limb ELSE h) * Limb + w.lo

\* `let count: i32 = ...query_async(..).await.unwrap_or(-1)` for any reply:
\* a reply inside i32 is the count.  A reply outside i32 is narrowed by the
\* store client, which is not part of this repository: it either keeps the
\* low 32 bits or reports a conversion error, which unwrap_or turns into -1.
\* A failed command gives -1.
DecrReplies(ok, w) ==
    IF ~ok THEN {-1}
    ELSE IF FitsI32(w) THEN {I64AsI32(w)}
    ELSE {I64AsI32(w), -1}

\* DECR key on 64-bit counters: an absent key counts as 0 and is created
\* without expiry.
StoreDecrWide(st, key) ==
    IF IsNone(st[key])
    THEN [st EXCEPT ![key] = Some(Entry(ToI64(-1), 0))]
    ELSE [st EXCEPT ![key] = Some(Entry(I64Decr(Unwrap(@).val), Unwrap(@).ttl))]

\* 1, 2, 2^31 - 1, 2^31, 2^31 + 1 and 2^32 - 1 as u32.
WideCapacities ==
    {I64(0, 1), I64(0, 2), I64(Limb \div 2 - 1, Limb - 1), I64(Limb \div 2, 0),
     I64(Limb \div 2, 1), I64(Limb - 1, Limb - 1)}

\* One ip limiter whose global bucket has capacity n.
ScWide(n) ==
    [settings |-> Settings({},
        << Limiter("ip", Some(Bucket(n, 60)), None) >>),
     clients |-> {Req("1.2.3.4", "/login", NoHeaders)}]

InitWide ==
    /\ \E n \in WideCapacities :
         /\ settings = ScWide(n).settings
         /\ clients = ScWide(n).clients
         /\ \E iters \in IterChoices(ScWide(n).settings) :
              manager = ManagerNew(ScWide(n).settings, iters)
    /\ store = [k \in AllKeys |-> None]
    /\ task = [r \in Tasks |-> InitTask]
    /\ log = [r \in Tasks |-> InitLog]
    /\ obs = [k \in AllKeys |-> [InitObs EXCEPT !.cap = ToI64(0)]]
    /\ arrivals = 0
    /\ events = 0

\* RateLimiter::check up to and including the SET command, as Check, with
\* the capacity a u32 of any size.
CheckWide(r) ==
    /\ task[r].pc = "check"
    /\ Settled
    /\ \E pool \in BOOLEAN, ok \in BOOLEAN :
         LET t == task[r]
             limiter == Group(t.g)[t.i]
             got == GetRedisKey(limiter, t.request)
         IN IF ~pool
            THEN /\ ok
                 /\ MayFail(FALSE)
                 /\ events' = Count(FALSE)
                 /\ task' = [task EXCEPT ![r] = Continue(t, OnPoolError)]
                 /\ log' = [log EXCEPT ![r].checks =
                              Append(@, CheckEntry(t, "pool", None, OnPoolError))]
                 /\ UNCHANGED <<store, obs>>
            ELSE IF got.tag = "panic"
            THEN /\ ok
                 /\ events' = events
                 /\ task' = [task EXCEPT ![r] =
                               [DropConnection(PoolGet(t)) EXCEPT !.pc = "done"]]
                 /\ log' = [log EXCEPT ![r].checks =
                              Append(@, CheckEntry(t, "panic", None, None)),
                            ![r].conns = @ + 1]
                 /\ UNCHANGED <<store, obs>>
            ELSE IF got.tag = "none"
            THEN /\ ok
                 /\ events' = events
                 /\ task' = [task EXCEPT ![r] =
                               Continue(DropConnection(PoolGet(t)), None)]
                 /\ log' = [log EXCEPT ![r].checks =
                              Append(@, CheckEntry(t, "skip", None, None)),
                            ![r].conns = @ + 1]
                 /\ UNCHANGED <<store, obs>>
            ELSE LET k == Unwrap(got.key)
                 IN /\ MayFail(ok)
                    /\ events' = Count(ok)
                    /\ task' = [task EXCEPT ![r] = [PoolGet(t) EXCEPT !.pc = "decr",
                                  !.key = got.key]]
                    /\ store' = IF ok
                                THEN StoreSetNx(store, k.key, k.bucket.tokens_count,
                                                k.bucket.add_tokens_every)
                                ELSE store
                    /\ obs' = IF ok /\ I64Gt(k.bucket.tokens_count, obs[k.key].cap)
                              THEN [obs EXCEPT ![k.key].cap = k.bucket.tokens_count]
                              ELSE obs
                    /\ log' = [log EXCEPT ![r].conns = @ + 1,
                                 ![r].ops = Append(@, OpEntry(t, "SET", k.key, ok))]
    /\ UNCHANGED <<settings, manager, clients, arrivals>>

\* redis::cmd("DECR") with unwrap_or(-1), the verdict, and the return into
\* middleware's loop, as Decr, with the counter a 64-bit integer.
DecrWide(r) ==
    /\ task[r].pc = "decr"
    /\ Settled
    /\ \E ok \in BOOLEAN :
         /\ MayFail(ok)
         /\ events' = Count(ok)
         /\ LET t == task[r]
                k == Unwrap(t.key)
                after == StoreDecrWide(store, k.key)
                o == obs[k.key]
            IN \E count \in DecrReplies(ok, Unwrap(after[k.key]).val) :
                 LET limit == LimitForRequest(k.bucket.tokens_count, count,
                                              IsLimitExceeded(count))
                 IN /\ store' = IF ok THEN after ELSE store
                    /\ obs' = IF ok
                              THEN [obs EXCEPT ![k.key] =
                                      [@ EXCEPT !.seen = @ \cup {count},
                                                !.hits = @ + 1,
                                                !.admits = IF count >= 0 THEN @ + 1 ELSE @,
                                                !.expired = FALSE]]
                              ELSE obs
                    /\ task' = [task EXCEPT ![r] =
                                  Continue(DropConnection(t), Some(limit))]
                    /\ log' = [log EXCEPT
                                 ![r].ops = Append(@, OpEntry(t, "DECR", k.key, ok)),
                                 ![r].checks = Append(@,
                                    [CheckEntry(t, "verdict", Some(k.key), Some(limit))
                                       EXCEPT !.nth = IF ok THEN o.hits + 1 ELSE 0,
                                              !.dup = ok /\ count \in o.seen,
                                              !.fresh = ok /\ o.expired,
                                              !.clean = ok /\ events = 0])]
    /\ UNCHANGED <<settings, manager, clients, arrivals>>

NextWide ==
    \/ \E r \in Tasks : Arrive(r)
    \/ \E r \in Tasks : CheckWide(r)
    \/ \E r \in Tasks : DecrWide(r)
    \/ \E r \in Tasks : Forward(r)
    \/ \E r \in Tasks : Close(r)
    \/ \E k \in AllKeys : Expire(k)

\* The single-limiter deployment with a capacity anywhere in u32.
SpecWide == InitWide /\ [][NextWide]_vars

\* ------------------------------------------------------- construction
\* The limiter blocks a configuration file can hold: every strategy, with a
\* global bucket, with overrides (possibly an empty list), with both, and
\* with neither.
Blocks ==
    {Limiter("ip", Some(Bucket(1, 60)), None),
     Limiter("ip", None, Some(<<>>)),
     Limiter("ip", None, None),
     Limiter("url", None, Some(<< PerValue("/login", 1, 60) >>)),
     Limiter("url", None, None),
     Limiter("header", Some(Bucket(2, 60)), Some(<< PerValue("X-Api-Key", 1, 60) >>)),
     Limiter("header", None, None)}

BlockLists == UNION {[1..n -> Blocks] : n \in 0..MaxBlocks}

\* The process before RateLimiterManager::new has run.
NotBuilt == [ok |-> FALSE, pending |-> TRUE]

InitNew ==
    /\ settings \in {Settings({"127.0.0.1"}, ls) : ls \in BlockLists}
    /\ manager = NotBuilt
    /\ clients = {}
    /\ store = [k \in AllKeys |-> None]
    /\ task = [r \in Tasks |-> InitTask]
    /\ log = [r \in Tasks |-> InitLog]
    /\ obs = [k \in AllKeys |-> InitObs]
    /\ arrivals = 0
    /\ events = 0

\* Server::run calls RateLimiterManager::new(settings).
New ==
    /\ manager = NotBuilt
    /\ \E iters \in IterChoices(settings) : manager' = ManagerNew(settings, iters)
    /\ UNCHANGED <<settings, clients, store, task, log, obs, arrivals, events>>

NextNew == New
SpecNew == InitNew /\ [][NextNew]_vars

\* ------------------------------------------------------- reading the log
Done(r) == task[r].pc = "done"
Active(r) == task[r].pc # "idle"
Checks(r) == {log[r].checks[n] : n \in 1..Len(log[r].checks)}
Verdicts(r) == {e \in Checks(r) : e.outcome = "verdict"}
Ops(r) == {log[r].ops[n] : n \in 1..Len(log[r].ops)}
Remaining(e) == Unwrap(e.verdict).requests_to_exceed_limit
Total(e) == Unwrap(e.verdict).total_limit
Exceeded(e) == Unwrap(e.verdict).is_limit_exceeded
Forwarded(r) == log[r].forwards = 1
NoHeadersStamped(r) == IsNone(task[r].response.limit) /\ IsNone(task[r].response.remaining)
LimiterCount == Len(manager.user_rate_limiters) + Len(manager.url_rate_limiters)

\* ------------------------------------------------------------------- C1
\* C1: with a single limiter of capacity N and a key that starts absent, as
\* long as no key expired and no store command failed, the j-th request on
\* the key is admitted with remaining N - j for j <= N and is answered 429
\* for j > N (in particular j = N + 1).  Requests are numbered in the order
\* of their DECR, which is their arrival order when they are handled one
\* after another.
C1_FirstNAdmitted ==
    \A r \in Tasks : \A e \in Verdicts(r) :
        (LimiterCount = 1 /\ e.clean) =>
            IF e.nth <= Total(e)
            THEN /\ Remaining(e) = Total(e) - e.nth
                 /\ ~Exceeded(e)
                 /\ task[r].pc \in {"forward", "done"}
                 /\ Done(r) => /\ Forwarded(r)
                               /\ task[r].response.status # 429
                               /\ task[r].response.remaining = Some(Total(e) - e.nth)
                               /\ task[r].response.limit = Some(Total(e))
            ELSE /\ Done(r)
                 /\ task[r].response.status = 429
                 /\ ~Forwarded(r)

\* Request N + 1 = 3 on a key of capacity 2 has been answered 429.
C1_Witness ==
    \E r \in Tasks : \E e \in Verdicts(r) :
        /\ LimiterCount = 1 /\ e.clean
        /\ Total(e) = 2 /\ e.nth = 3
        /\ Done(r) /\ task[r].response.status = 429

\* ------------------------------------------------------------------- C2
\* C2: on a key that has not expired, however the SET-NX and DECR steps of
\* concurrent requests interleave, no DECR reply repeats an earlier reply on
\* the same key, and the number of non-exceeded verdicts on the key never
\* exceeds the capacity the key was seeded with.
C2_AtomicDecrement ==
    /\ \A r \in Tasks : \A e \in Verdicts(r) : ~e.dup
    /\ \A k \in AllKeys : ~obs[k].everExpired => obs[k].admits <= obs[k].cap

\* Two requests are on the same exhausted key at once: one was just rejected
\* while the other has done its SET and not yet its DECR.
C2_Witness ==
    \E r1, r2 \in Tasks :
        /\ r1 # r2
        /\ task[r1].pc = "decr"
        /\ Done(r2) /\ task[r2].response.status = 429
        /\ \E e \in Verdicts(r2) :
             /\ e.key = Some(Unwrap(task[r1].key).key)
             /\ ~obs[Unwrap(e.key)].everExpired
             /\ obs[Unwrap(e.key)].admits = obs[Unwrap(e.key)].cap
             /\ obs[Unwrap(e.key)].cap >= 1

\* ------------------------------------------------------------------- C3
\* C3: the first verdict computed on a key after the key expired is not
\* exceeded and has remaining = N - 1, N the capacity of the bucket selected
\* for that request.
C3_AdmittedAfterExpiry ==
    \A r \in Tasks : \A e \in Verdicts(r) :
        e.fresh => /\ ~Exceeded(e)
                   /\ Remaining(e) = Total(e) - 1

\* ------------------------------------------------------------------- C4
GroupOneEnded(r) ==
    Cardinality({n \in 1..Len(log[r].checks) :
                   /\ log[r].checks[n].g = 1
                   /\ log[r].checks[n].outcome # "panic"})
        = Len(manager.user_rate_limiters)

\* C4: a request whose identity group ended with an exceeded verdict is
\* answered 429 without being forwarded, and no limiter of the request group
\* ran for it: it sent no SET and no DECR on a URL key.
C4_GroupShortCircuit ==
    \A r \in Tasks :
        (GroupOneEnded(r) /\ \E e \in Verdicts(r) : e.g = 1 /\ Exceeded(e)) =>
            /\ Done(r)
            /\ task[r].response.status = 429
            /\ ~Forwarded(r)
            /\ \A e \in Checks(r) : e.g = 1
            /\ \A o \in Ops(r) : o.g = 1 /\ o.key.kind # "url"

\* A request was rejected by the IP limiter while a URL limiter is configured
\* and the URL key it would have used still holds tokens.
C4_Witness ==
    \E r \in Tasks :
        /\ Len(manager.url_rate_limiters) = 1
        /\ Done(r) /\ task[r].response.status = 429
        /\ \E e \in Verdicts(r) : e.g = 1 /\ Exceeded(e)
        /\ LET u == RedisKey("url", hash_key(task[r].request.path))
           IN IsSome(store[u]) /\ Unwrap(store[u]).val >= 0

\* ------------------------------------------------------------------- C5
MinRemaining(r) ==
    CHOOSE m \in {Remaining(e) : e \in Verdicts(r)} :
        \A e \in Verdicts(r) : m <= Remaining(e)

\* C5: a forwarded request with at least one verdict carries
\* X-RateLimit-Remaining = the least remaining among its verdicts and
\* X-RateLimit-Limit = the total of a verdict with that remaining.
C5_TightestStamped ==
    \A r \in Tasks :
        (Done(r) /\ Forwarded(r) /\ Verdicts(r) # {}) =>
            /\ task[r].response.remaining = Some(MinRemaining(r))
            /\ \E e \in Verdicts(r) :
                 /\ Remaining(e) = MinRemaining(r)
                 /\ task[r].response.limit = Some(Total(e))

\* A forwarded request with two verdicts, the URL one strictly tighter, whose
\* headers are the URL limiter's.
C5_Witness ==
    \E r \in Tasks :
        /\ Done(r) /\ Forwarded(r)
        /\ \E e1, e2 \in Verdicts(r) :
             /\ e1.g = 1 /\ e2.g = 2
             /\ Remaining(e2) < Remaining(e1)
             /\ Total(e2) # Total(e1)
             /\ task[r].response.limit = Some(Total(e2))

\* ------------------------------------------------------------------- C6
\* C6: a forwarded request with quota headers has a stamped remaining >= 0.
C6_StampedNonNegative ==
    \A r \in Tasks :
        (Done(r) /\ Forwarded(r) /\ IsSome(task[r].response.remaining)) =>
            Unwrap(task[r].response.remaining) >= 0

\* A request was forwarded with the last token: remaining 0 is stamped.
C6_Witness ==
    \E r \in Tasks :
        /\ Done(r) /\ Forwarded(r)
        /\ task[r].response.remaining = Some(0)

\* ------------------------------------------------------------------- C7
\* C7: a request from a whitelisted IP is forwarded at once: no limiter is
\* evaluated, no connection is taken from the pool, no SET or DECR is sent,
\* and the response carries no X-RateLimit-* header.
C7_WhitelistBypass ==
    \A r \in Tasks :
        (Active(r) /\ task[r].request.ip \in settings.ip_whitelist) =>
            /\ Done(r)
            /\ Forwarded(r)
            /\ task[r].response.status \in {200, 500}
            /\ log[r].checks = <<>>
            /\ log[r].ops = <<>>
            /\ log[r].conns = 0
            /\ NoHeadersStamped(r)

\* A whitelisted request was forwarded while a counter is below zero.
C7_Witness ==
    \E r \in Tasks :
        /\ Done(r) /\ Forwarded(r)
        /\ task[r].request.ip \in settings.ip_whitelist
        /\ \E k \in AllKeys : IsSome(store[k]) /\ Unwrap(store[k]).val < 0

\* ------------------------------------------------------------------- C8
\* C8: a non-whitelisted request whose body was read is answered 429 and not
\* forwarded exactly when one of its verdicts is exceeded; otherwise it is
\* forwarded exactly once.
C8_RejectIffExceeded ==
    \A r \in Tasks :
        (Done(r) /\ log[r].body /\ task[r].request.ip \notin settings.ip_whitelist) =>
            IF \E e \in Verdicts(r) : Exceeded(e)
            THEN task[r].response.status = 429 /\ log[r].forwards = 0
            ELSE task[r].response.status # 429 /\ log[r].forwards = 1

\* ------------------------------------------------------------------- C9
LimiterAt(g, i) == Group(g)[i]

\* No configured header name is on the request, and the Authorization
\* fallback does not apply.
NothingToLimitBy(limiter, request) ==
    /\ IF IsSome(limiter.buckets_per_value)
       THEN \A k \in DOMAIN Unwrap(limiter.buckets_per_value).get :
               IsNone(HeadersGet(request, to_lowercase(k)))
       ELSE TRUE
    /\ IsNone(limiter.global_bucket) \/ IsNone(HeadersGet(request, "authorization"))

\* C9: a Header limiter that got a connection and finds neither a configured
\* header nor an applicable Authorization fallback skips: no verdict, no
\* store command, and the request goes on to the remaining limiters.
C9_HeaderSkips ==
    \A r \in Tasks : \A e \in Checks(r) :
        (/\ LimiterAt(e.g, e.i).strategy = "Header"
         /\ NothingToLimitBy(LimiterAt(e.g, e.i), task[r].request)
         /\ e.outcome # "pool") =>
            e.outcome = "skip"

\* ------------------------------------------------------------------ C10
\* The settings blocks of a group, in configuration order.
RECURSIVE BlocksOf(_, _)
BlocksOf(g, n) ==
    IF n = 0 THEN <<>>
    ELSE LET b == settings.limiters_settings[n]
             isUrl == b.strategy = "url"
         IN IF (g = 2) = isUrl THEN Append(BlocksOf(g, n - 1), b) ELSE BlocksOf(g, n - 1)

BlockAt(g, i) == BlocksOf(g, Len(settings.limiters_settings))[i]

Matching(entries, request) ==
    {n \in 1..Len(entries) : IsSome(HeadersGet(request, to_lowercase(entries[n].value)))}

FirstMatching(entries, request) ==
    CHOOSE n \in Matching(entries, request) : \A m \in Matching(entries, request) : n <= m

\* C10: when a request carries two or more of the header names of a Header
\* limiter's buckets_per_value, the limiter keys on the value of the first
\* matching entry in configuration order and uses that entry's bucket.
C10_FirstHeaderWins ==
    \A r \in Tasks :
        (task[r].pc = "decr" /\ LimiterAt(task[r].g, task[r].i).strategy = "Header"
         /\ IsSome(BlockAt(task[r].g, task[r].i).buckets_per_value)) =>
            LET entries == Unwrap(BlockAt(task[r].g, task[r].i).buckets_per_value)
                request == task[r].request
                first == entries[FirstMatching(entries, request)]
                value == Unwrap(HeadersGet(request, to_lowercase(first.value)))
            IN Cardinality(Matching(entries, request)) >= 2 =>
                 /\ Unwrap(task[r].key).key = RedisKey("header", hash_key(value.bytes))
                 /\ Unwrap(task[r].key).bucket =
                        Bucket(first.tokens_count, first.add_tokens_every)

\* ------------------------------------------------------------------ C11
PoolFailures(r) == {e \in Checks(r) : e.outcome = "pool"}

\* C11: a limiter whose pool get failed yields no verdict and sends no store
\* command; the request goes on through the other limiters as if the limiter
\* had skipped: unless one of them votes exceeded, every configured limiter
\* is evaluated and the request is forwarded; and when the pool get failed
\* for every limiter, the forwarded response has no X-RateLimit-* header.
C11_PoolFailureSkips ==
    \A r \in Tasks :
        /\ \A e \in PoolFailures(r) :
              /\ IsNone(e.verdict)
              /\ IsNone(e.key)
              /\ \A o \in Ops(r) : ~(o.g = e.g /\ o.i = e.i)
        /\ (Done(r) /\ PoolFailures(r) # {} /\ \A e \in Verdicts(r) : ~Exceeded(e)) =>
              /\ Len(log[r].checks) = LimiterCount
              /\ Forwarded(r)
              /\ task[r].response.status \in {200, 500}
              /\ (Checks(r) = PoolFailures(r)) => NoHeadersStamped(r)

\* The pool get failed for the IP limiter; the URL limiter still voted, and
\* the request was forwarded with the URL limiter's quota headers.
C11_Witness ==
    \E r \in Tasks :
        /\ Done(r) /\ Forwarded(r)
        /\ \E e \in PoolFailures(r) : e.g = 1
        /\ \E e \in Verdicts(r) :
             /\ e.g = 2
             /\ task[r].response.remaining = Some(Remaining(e))

\* ------------------------------------------------------------------ C12
\* All limiters of group g have been handled for request r.
GroupEnded(r, g) ==
    Cardinality({n \in 1..Len(log[r].checks) :
                   /\ log[r].checks[n].g = g
                   /\ log[r].checks[n].outcome # "panic"}) = Len(Group(g))

DecrFailed(r, e) ==
    \E o \in Ops(r) : o.op = "DECR" /\ o.g = e.g /\ o.i = e.i /\ ~o.ok

\* The step in which request r gets the reply of its DECR.
DecrStep(r) == task[r].pc = "decr" /\ task'[r].pc # "decr"

IdentityValue(block, request) ==
    IF block.strategy = "ip" THEN request.ip ELSE request.path

\* The bucket the configuration block assigns to identity value v: the
\* override for v, else the global bucket, else none.
ConfiguredBucket(block, v) ==
    LET entries == IF IsSome(block.buckets_per_value)
                   THEN Unwrap(block.buckets_per_value) ELSE <<>>
        hits == {n \in 1..Len(entries) : entries[n].value = v}
    IN IF hits # {}
       THEN LET b == entries[CHOOSE n \in hits : TRUE]
            IN Some(Bucket(b.tokens_count, b.add_tokens_every))
       ELSE block.global_bucket

\* C13: an IP or URL limiter that got a connection uses, for identity value
\* v, the override bucket of v if configured, else the global bucket, else
\* it skips without a store command; its counter key is the one of v alone,
\* so, while nothing fails or expires, the j-th verdict on the key of v has
\* remaining = capacity - j whatever happened on the keys of other values.
C13_BucketPerIdentity ==
    \A r \in Tasks :
        /\ \A e \in Checks(r) :
              LET block == BlockAt(e.g, e.i)
                  v == IdentityValue(block, task[r].request)
                  want == ConfiguredBucket(block, v)
              IN (block.strategy \in {"ip", "url"} /\ e.outcome # "pool") =>
                   IF IsNone(want)
                   THEN /\ e.outcome = "skip"
                        /\ \A o \in Ops(r) : ~(o.g = e.g /\ o.i = e.i)
                   ELSE /\ e.outcome = "verdict"
                        /\ e.key = Some(RedisKey(block.strategy, hash_key(v)))
                        /\ Total(e) = Unwrap(want).tokens_count
                        /\ e.clean => Remaining(e) = Total(e) - e.nth
        /\ task[r].pc = "decr" =>
              LET block == BlockAt(task[r].g, task[r].i)
                  v == IdentityValue(block, task[r].request)
              IN block.strategy \in {"ip", "url"} =>
                   /\ Some(Unwrap(task[r].key).bucket) = ConfiguredBucket(block, v)
                   /\ Unwrap(task[r].key).key = RedisKey(block.strategy, hash_key(v))

\* /login (override, 1 token) is exhausted and a request to /health was
\* forwarded with the global bucket's capacity and remaining capacity - 1,
\* after the IP limiter (overrides only, none for this client) skipped.
C13_Witness ==
    \E r \in Tasks :
        /\ Done(r) /\ Forwarded(r)
        /\ task[r].request.path = "/health"
        /\ \E e \in Checks(r) : e.g = 1 /\ e.outcome = "skip"
        /\ task[r].response.limit = Some(2)
        /\ task[r].response.remaining = Some(1)
        /\ IsSome(store[RedisKey("url", hash_key("/login"))])
        /\ Unwrap(store[RedisKey("url", hash_key("/login"))]).val < 0

\* ------------------------------------------------------------------ C14
Built == "pending" \notin DOMAIN manager

HasBucket(block) == IsSome(block.global_bucket) \/ IsSome(block.buckets_per_value)

\* C14: construction fails, leaving no limiter and no whitelist behind,
\* exactly when some configured block has neither a global bucket nor
\* overrides; it succeeds when every block has at least one of them.
C14_ConstructionError ==
    Built =>
        /\ manager.ok <=> \A n \in 1..Len(settings.limiters_settings) :
                             HasBucket(settings.limiters_settings[n])
        /\ ~manager.ok => /\ manager.user_rate_limiters = <<>>
                          /\ manager.url_rate_limiters = <<>>
                          /\ manager.ip_whitelist = {}

\* Construction failed on a configuration whose first block is valid and
\* whose last block has no bucket at all.
C14_Witness ==
    /\ Built
    /\ ~manager.ok
    /\ Len(settings.limiters_settings) >= 2
    /\ HasBucket(settings.limiters_settings[1])
    /\ ~HasBucket(settings.limiters_settings[Len(settings.limiters_settings)])

\* ------------------------------------------------------------------ C15
\* The configuration name of a limiter's strategy.
KindOf(limiter) ==
    CASE limiter.strategy = "IP" -> "ip"
      [] limiter.strategy = "Url" -> "url"
      [] limiter.strategy = "Header" -> "header"

\* The limiter is the one built from the block: same strategy, same global
\* bucket, same overrides.
BuiltFrom(limiter, block) ==
    /\ KindOf(limiter) = block.strategy
    /\ limiter.global_bucket = block.global_bucket
    /\ IsSome(limiter.buckets_per_value) = IsSome(block.buckets_per_value)
    /\ IsSome(block.buckets_per_value) =>
          LET entries == Unwrap(block.buckets_per_value)
              map == Unwrap(limiter.buckets_per_value)
          IN /\ DOMAIN map.get = EntryValues(entries)
             /\ \A n \in 1..Len(entries) :
                   map.get[entries[n].value] =
                       Bucket(entries[n].tokens_count, entries[n].add_tokens_every)

\* C15: after a successful construction the identity group is the IP and
\* Header blocks and the request group the URL blocks, each group in
\* configuration order, each block once.
C15_GroupPlacement ==
    (Built /\ manager.ok) =>
        \A g \in {1, 2} :
            LET blocks == BlocksOf(g, Len(settings.limiters_settings))
            IN /\ Len(Group(g)) = Len(blocks)
               /\ \A i \in 1..Len(blocks) : BuiltFrom(Group(g)[i], blocks[i])
               /\ \A i \in 1..Len(blocks) :
                     (g = 1) = (blocks[i].strategy \in {"ip", "header"})

\* A manager built from URL, Header, IP blocks in that order: the identity
\* group is (Header, IP), the request group (URL).
C15_Witness ==
    /\ Built /\ manager.ok
    /\ Len(settings.limiters_settings) = 3
    /\ settings.limiters_settings[1].strategy = "url"
    /\ settings.limiters_settings[2].strategy = "header"
    /\ settings.limiters_settings[3].strategy = "ip"
    /\ Len(manager.user_rate_limiters) = 2
    /\ manager.user_rate_limiters[1].strategy = "Header"
    /\ manager.user_rate_limiters[2].strategy = "IP"

\* ------------------------------------------------------------------ C16
Unreadable(request, name) ==
    /\ IsSome(HeadersGet(request, name))
    /\ IsNone(to_str(Unwrap(HeadersGet(request, name))))

\* The header the limiter selects (a configured one, or Authorization as the
\* fallback) carries a value that cannot be turned into a string.
SelectsUnreadable(limiter, request) ==
    LET names == IF IsSome(limiter.buckets_per_value)
                 THEN {to_lowercase(k) : k \in DOMAIN Unwrap(limiter.buckets_per_value).get}
                 ELSE {}
    IN \/ \E name \in names : Unreadable(request, name)
       \/ /\ \A name \in names : IsNone(HeadersGet(request, name))
          /\ IsSome(limiter.global_bucket)
          /\ Unreadable(request, "authorization")

\* C16: a Header limiter that got a connection and whose selected header has
\* a value that cannot be turned into a string skips: no verdict, no store
\* command, and the request still gets its answer.
C16_UnreadableHeaderSkips ==
    \A r \in Tasks : \A e \in Checks(r) :
        (/\ LimiterAt(e.g, e.i).strategy = "Header"
         /\ SelectsUnreadable(LimiterAt(e.g, e.i), task[r].request)
         /\ e.outcome # "pool") =>
            /\ e.outcome = "skip"
            /\ \A o \in Ops(r) : ~(o.g = e.g /\ o.i = e.i)
            /\ Done(r) => task[r].response.status # 0

\* ------------------------------------------------------------------ C17
\* The buckets of the configuration: global buckets and overrides.
ConfiguredBuckets ==
    UNION {(IF IsSome(settings.limiters_settings[n].global_bucket)
            THEN {Unwrap(settings.limiters_settings[n].global_bucket)} ELSE {})
           \cup
           (IF IsSome(settings.limiters_settings[n].buckets_per_value)
            THEN {Bucket(b.tokens_count, b.add_tokens_every) :
                    b \in EntryValuesOf(Unwrap(settings.limiters_settings[n].buckets_per_value))}
            ELSE {}) : n \in 1..Len(settings.limiters_settings)}

\* C17: while nothing failed and nothing expired, however many init steps
\* were executed on a key, the key holds the value and the expiry of one
\* init of a configured bucket, less one per DECR: value + number of DECRs
\* is that bucket's capacity and the expiry is that bucket's window; and the
\* j-th verdict on the key has remaining = that capacity - j, as after a
\* single init.
C17_InitIdempotent ==
    \A k \in AllKeys :
        (events = 0 /\ IsSome(store[k])) =>
            /\ \E b \in ConfiguredBuckets :
                  /\ Unwrap(store[k]).val + obs[k].hits = b.tokens_count
                  /\ Unwrap(store[k]).ttl = b.add_tokens_every
            /\ \A r \in Tasks : \A e \in Verdicts(r) :
                  e.key = Some(k) =>
                      Remaining(e) + e.nth = Unwrap(store[k]).val + obs[k].hits

\* A request whose bucket is (2 tokens, 30 s) has executed its init on a key
\* that another bucket's init seeded with (1 token, 60 s) and that was
\* decremented once: the key still holds 0 and the expiry of 60 s.
C17_Witness ==
    \E r \in Tasks :
        /\ events = 0
        /\ task[r].pc = "decr"
        /\ Unwrap(task[r].key).bucket = Bucket(2, 30)
        /\ store[Unwrap(task[r].key).key] = Some(Entry(0, 60))
        /\ obs[Unwrap(task[r].key).key].hits = 1

\* ------------------------------------------------------------------ C18
\* The checks of request r that obtained a connection and have ended.
EndedWithConnection(r) ==
    {n \in 1..Len(log[r].checks) : log[r].checks[n].outcome # "pool"}

\* C18: a request task holds no connection except while a limiter check of
\* its own is in flight, and then exactly one: every connection it obtained
\* was released when its check ended, whether the check ended with a
\* verdict (also that of a failed DECR), with a skip or by unwinding.
C18_OneConnection ==
    \A r \in Tasks :
        /\ task[r].conn \in {0, 1}
        /\ task[r].conn = 1 <=> task[r].pc = "decr"
        /\ log[r].conns = Cardinality(EndedWithConnection(r)) + task[r].conn

\* A request is done after one check that skipped for want of a bucket and
\* one whose DECR failed; it took two connections and holds none.
C18_Witness ==
    \E r \in Tasks :
        /\ Done(r)
        /\ task[r].conn = 0
        /\ log[r].conns = 2
        /\ \E e \in Checks(r) : e.outcome = "skip"
        /\ \E e \in Verdicts(r) : DecrFailed(r, e)

\* ------------------------------------------------------------------ C19
Op(r, n) == log[r].ops[n]

\* C19: the store commands of one request come in pairs, SET then DECR of
\* the same limiter on the same key; the pairs follow the order identity
\* group first, then request group, and configuration order within a
\* group; identity-group commands go to IP and Header keys and
\* request-group commands to URL keys; and a request-group command is sent
\* only after every identity-group limiter has ended and none voted
\* exceeded.
C19_IdentityBeforeUrl ==
    \A r \in Tasks :
        LET n == Len(log[r].ops)
        IN /\ \A m \in 1..n :
                 /\ Op(r, m).op = IF m % 2 = 1 THEN "SET" ELSE "DECR"
                 /\ Op(r, m).key.kind = BlockAt(Op(r, m).g, Op(r, m).i).strategy
                 /\ (Op(r, m).g = 1) = (Op(r, m).key.kind \in {"ip", "header"})
                 /\ (Op(r, m).g = 2) = (Op(r, m).key.kind = "url")
                 /\ (m % 2 = 0) =>
                       /\ Op(r, m).g = Op(r, m - 1).g
                       /\ Op(r, m).i = Op(r, m - 1).i
                       /\ Op(r, m).key = Op(r, m - 1).key
                 /\ (m % 2 = 1 /\ m > 1) =>
                       \/ Op(r, m - 1).g < Op(r, m).g
                       \/ /\ Op(r, m - 1).g = Op(r, m).g
                          /\ Op(r, m - 1).i < Op(r, m).i
           /\ (n % 2 = 1) <=> (task[r].pc = "decr")
           /\ (\E m \in 1..n : Op(r, m).g = 2) =>
                 /\ GroupEnded(r, 1)
                 /\ \A e \in Verdicts(r) : e.g = 1 => ~Exceeded(e)

\* With the URL limiter configured before the IP limiter, a forwarded
\* request sent SET and DECR on its IP key, then SET and DECR on its URL key.
C19_Witness ==
    \E r \in Tasks :
        /\ settings.limiters_settings[1].strategy = "url"
        /\ Done(r) /\ Forwarded(r)
        /\ Len(log[r].ops) = 4
        /\ Op(r, 1).key.kind = "ip" /\ Op(r, 2).key.kind = "ip"
        /\ Op(r, 3).key.kind = "url" /\ Op(r, 4).key.kind = "url"

\* ------------------------------------------------------------------ C20
\* Every limiter of the group that rejected request r has been evaluated,
\* and r sent one DECR per verdict it got.
NoEarlyExit(r) ==
    /\ (Done(r) /\ task[r].response.status = 429) => GroupEnded(r, task[r].g)
    /\ Cardinality({n \in 1..Len(log[r].ops) : Op(r, n).op = "DECR"})
           = Cardinality({n \in 1..Len(log[r].checks) :
                            log[r].checks[n].outcome = "verdict"})

\* Key k was seeded by a SET and has not expired.
InFirstWindow(k) ==
    IsSome(store[k]) /\ Unwrap(store[k]).ttl > 0 /\ ~obs[k].everExpired

\* The value DECR finds on key k (an absent key counts as 0).
ValueOf(st, k) == IF IsSome(st[k]) THEN Unwrap(st[k]).val ELSE 0

C21_EveryCounterExpires ==
    \A k \in AllKeys : IsSome(store[k]) => Unwrap(store[k]).ttl > 0

\* ------------------------------------------------------------------ C22
\* The DECR commands of request r that the store executed on key k.
DecrsOn(r, k) ==
    {n \in 1..Len(log[r].ops) :
        Op(r, n).op = "DECR" /\ Op(r, n).ok /\ Op(r, n).key = k}

\* C22: while one request is handled, each counter key is decremented at
\* most once, for every valid configuration, several limiters of the same
\* strategy kind included.
C22_OneDecrementPerKey ==
    \A r \in Tasks : \A k \in AllKeys : Cardinality(DecrsOn(r, k)) <= 1

\* ------------------------------------------------------------------ C23
\* C23: every verdict a limiter returns has remaining <= total - 1, so a
\* stamped X-RateLimit-Remaining is strictly below the stamped
\* X-RateLimit-Limit, also when different limiters or different Header
\* entries produce the same counter key with different capacities.
C23_RemainingBelowTotal ==
    \A r \in Tasks : \A e \in Verdicts(r) : Remaining(e) <= Total(e) - 1

\* ------------------------------------------------------------------ C24
\* C24: for every configured capacity N of the u32 range with N >= 1, the
\* first request against a fresh key (no fault or expiry before its DECR) is
\* admitted with remaining = N - 1: the value DECR left in the store is the
\* verdict's i32 remaining, not wrapped and not replaced by -1.
C24_FirstRemainingExact ==
    \A r \in Tasks : \A e \in Verdicts(r) :
        (e.clean /\ e.nth = 1) =>
            /\ ~Exceeded(e)
            /\ ToI64(Remaining(e)) = I64Decr(Total(e))
====
